---- MODULE Spec2Model ----
(***************************************************************************)
(* A model of pmpm: the environment descriptor (core.InstallEnvironment),  *)
(* the package handlers (packages.GenericPackage and its subclasses) and   *)
(* the helpers they use.                                                    *)
(*                                                                         *)
(* Strings are sequences of tokens: a token is a word without "=", or the  *)
(* separator itself.  Paths are sequences of components.  Optional[bool]   *)
(* is one of "None", "True", "False"; Optional[str] is <<>> or <<s>>.      *)
(***************************************************************************)
EXTENDS Integers, Sequences, FiniteSets, TLC

VARIABLES
    env,        \* the descriptor's fields (a record), or NoEnv before construction
    args,       \* the arguments the descriptor is constructed from
    host,       \* the host: platform.system() and the CPU vendor probe
    epc,        \* where the descriptor is: new, ready, conda, deps, loop, ...
    fs,         \* the directories that exist
    manifest,   \* what write_dict wrote: <<>> or <<to_dict>>
    pkg,        \* the handler in use, or NoPkg
    ppc,        \* where the handler is: none, constructed, running, done
    todo,       \* the steps the handler's chosen method still has to run
    queue,      \* the items of dependencies_versioned run_all still has to handle
    log,        \* what happened, in order
    err,        \* the exception that ended the run, or "none"
    given,      \* the last Package(...) call: its update and fast_update arguments
                \* and whether the directory is_installed looks for existed then
    os_environ, \* os.environ of the host
    cache,      \* the descriptor's cached environment views, by property name
    scratch,    \* a mapping that prepend_path and append_path are called on
    loaded,     \* what from_dict made of the manifest: a descriptor or an exception
    exits,      \* the external processes run so far, in order, each with its exit status
    previous,   \* the invocation before this one, if it aborted in a handler: the
                \* handler, its flags, and whether its directory existed at the abort
    cflags,     \* the -march and -mtune the last configure step was given, or NoFlags
    heap,       \* the dict objects the descriptor and the handlers have made, by identity
    refs,       \* the object each cached environment view holds, by property name
    penv        \* the object the last process was given as env=, or 0

vars == <<env, args, host, epc, fs, manifest, pkg, ppc, todo, queue, log, err, given,
          os_environ, cache, scratch, loaded, exits, previous, cflags, heap, refs, penv>>

\* the variables of the environment views
views == <<os_environ, cache, scratch, heap, refs, penv>>

----------------------------------------------------------------------------
(* Strings and paths *)

EQ == "="

RECURSIVE split(_, _)
\* str.split(sep): the parts between the separators, empty parts kept
split(s, sep) ==
    IF \A i \in 1..Len(s) : s[i] # sep
    THEN <<s>>
    ELSE LET i == CHOOSE k \in 1..Len(s) :
                      s[k] = sep /\ \A j \in 1..(k - 1) : s[j] # sep
         IN  <<SubSeq(s, 1, i - 1)>> \o split(SubSeq(s, i + 1, Len(s)), sep)

Range(s) == {s[i] : i \in 1..Len(s)}

\* Path.mkdir(parents=True, exist_ok=True)
mkdir(dirs, path) == dirs \cup {SubSeq(path, 1, n) : n \in 1..Len(path)}

\* Path.__truediv__: joining an empty name gives the same path
PathJoin(path, name) == IF name = <<>> THEN path ELSE path \o name

----------------------------------------------------------------------------
(* core.py: module-level helpers *)

\* os.pathsep of the host
pathsep(system) == IF system = "Windows" THEN ";" ELSE ":"

\* dict lookups: a mapping is a function, its keys are its DOMAIN
Has(d, k) == k \in DOMAIN d
Put(d, k, v) == [x \in DOMAIN d \cup {k} |-> IF x = k THEN v ELSE d[x]]

EmptyDict == [x \in {} |-> <<>>]

\* a variant that puts the path behind the old value
prepend_path_behind(environ, path, sep) ==
    IF Has(environ, "PATH")
    THEN Put(environ, "PATH", environ["PATH"] \o <<sep>> \o path)
    ELSE Put(environ, "PATH", path)

\* prepend_path(environ, path): the mapping after the call
prepend_path(environ, path, sep) ==
    IF Has(environ, "PATH")
    THEN Put(environ, "PATH", path \o <<sep>> \o environ["PATH"])
    ELSE Put(environ, "PATH", path)

\* append_path(environ, path): the mapping after the call
append_path(environ, path, sep) ==
    IF Has(environ, "PATH")
    THEN Put(environ, "PATH", environ["PATH"] \o <<sep>> \o path)
    ELSE Put(environ, "PATH", path)

\* a variant without the membership test
append_env_unconditional(dependencies, package) == Append(dependencies, package)

\* append_env(dependencies, package): the list after the call
append_env(dependencies, package) ==
    IF package \notin Range(dependencies)
    THEN Append(dependencies, package)
    ELSE dependencies

----------------------------------------------------------------------------
(* core.py: InstallEnvironment and CondaOnlyEnvironment *)

NoEnv == [variant |-> "none"]

supported_systems == {"Linux", "Darwin", "Windows"}

windows_exclude_conda_dependencies ==
    { <<"automake">>, <<"libaatm">>, <<"mpich-mpicc">>, <<"libsharp">>,
      <<"healpy">>, <<"libtool">>, <<"mpich-mpicxx">>, <<"mpich-mpifort">>,
      <<"suitesparse">>, <<"pysm3">>, <<"fftw">>, <<"cfitsio">>,
      <<"lapack">>, <<"matplotlib">> }

windows_exclude_dependencies == { <<"libmadam">> }

conda_environment_filename == <<"environment.yml">>

\* templates.CONDA_CHANNELS
CONDA_CHANNELS ==
    <<
       <<"conda-forge">>, <<"nodefaults">>
    >>

\* templates.CONDA_DEPENDENCIES
CONDA_DEPENDENCIES ==
    <<
       <<"astropy">>, <<"autobahn">>, <<"automake">>, <<"bandit">>, <<"cfitsio">>,
       <<"cmake">>, <<"compilers">>, <<"configobj">>, <<"coveralls">>, <<"cython">>,
       <<"deprecation">>, <<"ephem">>, <<"fftw", EQ, "*", EQ, "mpi*">>, <<"flake8">>,
       <<"flatbuffers">>, <<"h5py", EQ, "*", EQ, "mpi*">>, <<"healpy">>,
       <<"influxdb">>, <<"ipykernel">>, <<"lapack">>, <<"libaatm">>,
       <<"libsharp", EQ, "*", EQ, "mpi*">>, <<"libtool">>, <<"make">>,
       <<"matplotlib">>, <<"mpi4py">>, <<"mpich-mpicc">>, <<"mpich-mpicxx">>,
       <<"mpich-mpifort">>, <<"mypy">>, <<"namaster">>, <<"nbformat">>, <<"numba">>,
       <<"numpy">>, <<"pillow">>, <<"plotly">>, <<"pshmem">>, <<"py-ubjson">>,
       <<"pyaml">>, <<"pydocstyle">>, <<"pyfftw">>, <<"pylint">>, <<"pyserial">>,
       <<"pysm3">>, <<"pysmi">>, <<"pysnmp">>, <<"pysqlite3">>, <<"pytest-cov">>,
       <<"pytest">>, <<"python-dateutil">>, <<"pytz">>, <<"pyyaml">>,
       <<"quaternionarray">>, <<"scikit-image">>, <<"scipy">>, <<"setproctitle">>,
       <<"setuptools">>, <<"skyfield">>, <<"sphinx_rtd_theme">>, <<"sphinx">>,
       <<"sqlalchemy">>, <<"suitesparse">>, <<"toml">>, <<"tqdm">>, <<"twisted">>,
       <<"typer">>, <<"ujson">>, <<"wurlitzer">>
    >>

\* templates.DEPENDENCIES
DEPENDENCIES ==
    <<
       <<"libmadam">>, <<"toast", EQ, "toast3">>
    >>

\* the defaults of the dataclass fields; prefix has none, the model's is /tmp/env1
DefaultArgs(variant) ==
    [ variant              |-> variant,
      prefix               |-> <<"tmp", "env1">>,
      conda_channels       |-> CONDA_CHANNELS,
      conda_dependencies   |-> CONDA_DEPENDENCIES,
      dependencies         |-> DEPENDENCIES,
      python_version       |-> <<"3.10">>,
      conda_prefix_name    |-> IF variant = "conda_only" THEN <<>> ELSE <<"conda">>,
      compile_prefix_name  |-> IF variant = "conda_only" THEN <<>> ELSE <<"compile">>,
      download_prefix_name |-> <<"git">>,
      conda                |-> <<"mamba">>,
      sub_platform         |-> <<>>,
      skip_test            |-> FALSE,
      skip_conda           |-> FALSE,
      fast_update          |-> FALSE,
      nomkl                |-> "None",
      update               |-> "None",
      arch                 |-> <<"x86-64-v3">>,
      tune                 |-> <<"generic">> ]

\* is_intel(): the vendor string compared, or the probe's failure
is_intel(cpu) == cpu = "GenuineIntel"

\* the first lines of InstallEnvironment.__post_init__: the Windows filtering
windows_filter(a) ==
    LET cd1 == IF <<"matplotlib">> \in Range(a.conda_dependencies)
               THEN Append(a.conda_dependencies, <<"matplotlib-base">>)
               ELSE a.conda_dependencies
        cd2 == SelectSeq(cd1, LAMBDA dep : dep \notin windows_exclude_conda_dependencies)
        d2  == SelectSeq(a.dependencies,
                         LAMBDA dep : split(dep, EQ)[1] \notin windows_exclude_dependencies)
    IN  [a EXCEPT !.conda_dependencies = cd2, !.dependencies = d2]

\* InstallEnvironment.__post_init__: the descriptor, or the exception raised
InstallEnvironment_post_init(a, h) ==
    IF h.system \notin supported_systems
    THEN [err |-> "OSError", env |-> NoEnv]
    ELSE
    LET a1 == IF h.system = "Windows" THEN windows_filter(a) ELSE a IN
    IF a1.nomkl = "None" /\ h.cpu = "ImportError"
    THEN [err |-> "RuntimeError", env |-> NoEnv]
    ELSE IF a1.nomkl = "None" /\ h.cpu = "Exception"
    THEN [err |-> "Exception", env |-> NoEnv]
    ELSE
    LET nomkl == IF a1.nomkl = "None"
                 THEN (IF is_intel(h.cpu) THEN "False" ELSE "True")
                 ELSE a1.nomkl
        cd1 == append_env(a1.conda_dependencies, <<"python", EQ>> \o a1.python_version)
        cd2 == IF nomkl = "True" THEN append_env(cd1, <<"nomkl">>) ELSE cd1
    IN  [err |-> "none",
         env |-> [a1 EXCEPT !.nomkl = nomkl, !.conda_dependencies = cd2]]

\* a variant that does not compare the two prefix names
CondaOnlyEnvironment_post_init_unchecked(a, h) ==
    LET r == InstallEnvironment_post_init(a, h) IN
    IF r.err # "none" THEN r
    ELSE [err |-> "none",
          env |-> [r.env EXCEPT !.conda_dependencies = append_env(@, <<"cmake">>)]]

\* CondaOnlyEnvironment.__post_init__
CondaOnlyEnvironment_post_init(a, h) ==
    LET r == InstallEnvironment_post_init(a, h) IN
    IF r.err # "none" THEN r
    ELSE IF r.env.conda_prefix_name # r.env.compile_prefix_name
    THEN [err |-> "RuntimeError", env |-> NoEnv]
    ELSE
    LET cd1 == append_env(r.env.conda_dependencies, <<"cmake">>)
        cd2 == IF r.env.nomkl = "True"
               THEN append_env(append_env(cd1, <<"libblas">>), <<"liblapack">>)
               ELSE append_env(append_env(cd1, <<"libblas", EQ, "*", EQ, "*mkl">>),
                               <<"liblapack", EQ, "*", EQ, "*mkl">>)
    IN  [err |-> "none", env |-> [r.env EXCEPT !.conda_dependencies = cd2]]

\* cls(...): the dataclass's generated __init__, ending in __post_init__
construct(a, h) ==
    IF a.variant = "conda_only"
    THEN CondaOnlyEnvironment_post_init(a, h)
    ELSE InstallEnvironment_post_init(a, h)

\* dict assignment res[k] = v: a new key goes last, an old key keeps its place
dict_set(res, k, v) ==
    IF \E i \in 1..Len(res) : res[i].name = k
    THEN [i \in 1..Len(res) |-> IF res[i].name = k THEN [name |-> k, version |-> v] ELSE res[i]]
    ELSE Append(res, [name |-> k, version |-> v])

RECURSIVE dependencies_versioned_loop(_, _)
dependencies_versioned_loop(deps, res) ==
    IF deps = <<>> THEN [err |-> "none", items |-> res]
    ELSE LET temp == split(Head(deps), EQ) IN
         IF Len(temp) = 1
         THEN dependencies_versioned_loop(Tail(deps), dict_set(res, temp[1], <<>>))
         ELSE IF Len(temp) = 2
         THEN dependencies_versioned_loop(Tail(deps), dict_set(res, temp[1], <<temp[2]>>))
         ELSE [err |-> "RuntimeError", items |-> <<>>]

RECURSIVE dependencies_versioned_maxsplit(_, _)
\* a variant that splits at the first separator only, as split("=", 1) would
dependencies_versioned_maxsplit(deps, res) ==
    IF deps = <<>> THEN [err |-> "none", items |-> res]
    ELSE LET temp == split(Head(deps), EQ) IN
         IF Len(temp) = 1
         THEN dependencies_versioned_maxsplit(Tail(deps), dict_set(res, temp[1], <<>>))
         ELSE dependencies_versioned_maxsplit(Tail(deps), dict_set(res, temp[1], <<temp[2]>>))

\* a variant of the property built on it
dependencies_versioned_lenient(dependencies) ==
    dependencies_versioned_maxsplit(dependencies, <<>>)

\* InstallEnvironment.dependencies_versioned
dependencies_versioned(dependencies) == dependencies_versioned_loop(dependencies, <<>>)

\* str(Path): every component behind a slash (the POSIX rendering, on every host)
RECURSIVE str_path(_)
str_path(path) ==
    IF path = <<>> THEN <<>> ELSE <<"/", Head(path)>> \o str_path(Tail(path))

\* Path(str): the non-empty parts between the slashes
Path(s) ==
    LET parts == SelectSeq(split(s, "/"), LAMBDA part : part # <<>>)
    IN  [i \in 1..Len(parts) |-> parts[i][1]]

\* InstallEnvironment.name
name(e) == IF e.prefix = <<>> THEN <<>> ELSE <<e.prefix[Len(e.prefix)]>>

\* InstallEnvironment.to_dict
to_dict(e) ==
    [ name         |-> name(e),
      channels     |-> e.conda_channels,
      dependencies |-> e.conda_dependencies,
      prefix       |-> str_path(e.prefix),
      _pmpm        |->
        [ dependencies         |-> e.dependencies,
          python_version       |-> e.python_version,
          conda_prefix_name    |-> e.conda_prefix_name,
          compile_prefix_name  |-> e.compile_prefix_name,
          download_prefix_name |-> e.download_prefix_name,
          conda                |-> e.conda,
          sub_platform         |-> e.sub_platform,
          skip_test            |-> e.skip_test,
          skip_conda           |-> e.skip_conda,
          fast_update          |-> e.fast_update,
          nomkl                |-> e.nomkl,
          update               |-> e.update,
          arch                 |-> e.arch,
          tune                 |-> e.tune ] ]

\* the keys from_dict reads, in the order it reads them
from_dict_data_keys == {"_pmpm", "channels", "dependencies"}
from_dict_pmpm_keys ==
    { "prefix", "dependencies", "python_version", "conda_prefix_name",
      "compile_prefix_name", "download_prefix_name", "conda", "sub_platform",
      "skip_test", "skip_conda", "fast_update", "nomkl", "update" }

\* InstallEnvironment.from_dict (a classmethod: cls is the variant)
from_dict(cls, data, h) ==
    IF ~Has(data, "_pmpm") THEN [err |-> "KeyError", env |-> NoEnv]
    ELSE
    LET pmpm == data["_pmpm"] IN
    IF \E k \in from_dict_pmpm_keys : ~Has(pmpm, k)
    THEN [err |-> "KeyError", env |-> NoEnv]
    ELSE IF \E k \in from_dict_data_keys : ~Has(data, k)
    THEN [err |-> "KeyError", env |-> NoEnv]
    ELSE construct(
        [ DefaultArgs(cls) EXCEPT
            !.prefix               = Path(pmpm["prefix"]),
            !.conda_channels       = data["channels"],
            !.conda_dependencies   = data["dependencies"],
            !.dependencies         = pmpm["dependencies"],
            !.python_version       = pmpm["python_version"],
            !.conda_prefix_name    = pmpm["conda_prefix_name"],
            !.compile_prefix_name  = pmpm["compile_prefix_name"],
            !.download_prefix_name = pmpm["download_prefix_name"],
            !.conda                = pmpm["conda"],
            !.sub_platform         = pmpm["sub_platform"],
            !.skip_test            = pmpm["skip_test"],
            !.skip_conda           = pmpm["skip_conda"],
            !.fast_update          = pmpm["fast_update"],
            !.nomkl                = pmpm["nomkl"],
            !.update               = pmpm["update"] ], h)

\* InstallEnvironment.conda_environment_path
conda_environment_path(e) == e.prefix \o conda_environment_filename

\* InstallEnvironment.conda_prefix, compile_prefix, downoad_prefix: the paths
conda_prefix(e) == PathJoin(e.prefix, e.conda_prefix_name)
compile_prefix(e) == PathJoin(e.prefix, e.compile_prefix_name)
downoad_prefix(e) == PathJoin(e.prefix, e.download_prefix_name)

\* Path.parent
parent(path) == IF path = <<>> THEN <<>> ELSE SubSeq(path, 1, Len(path) - 1)

\* InstallEnvironment.environ: os.environ with CONDA_PREFIX pointed at the root
\* prefix; KeyError without CONDA_EXE
InstallEnvironment_environ(os_env) ==
    IF ~Has(os_env, "CONDA_EXE") THEN [err |-> "KeyError", value |-> EmptyDict]
    ELSE [err |-> "none",
          value |-> Put(os_env, "CONDA_PREFIX",
                        str_path(parent(parent(Path(os_env["CONDA_EXE"])))))]

\* CondaOnlyEnvironment.environment_variable, sanitized_path
environment_variable == {"CONDA_PREFIX", "CONDA_EXE", "SCRATCH", "TERM", "HOME", "SYSTEMROOT"}
sanitized_path == << <<"/", "bin">>, <<"/", "usr", "/", "bin">> >>

\* a variant that keeps every inherited variable and adds the seed to its PATH
CondaOnlyEnvironment_environ_inheriting(os_env, sep) ==
    LET r == InstallEnvironment_environ(os_env) IN
    IF r.err # "none" THEN r
    ELSE [err |-> "none",
          value |-> append_path(append_path(r.value, sanitized_path[1], sep),
                                sanitized_path[2], sep)]

\* CondaOnlyEnvironment.environ: the whitelisted variables and the sanitized PATH
CondaOnlyEnvironment_environ(os_env, sep) ==
    LET r == InstallEnvironment_environ(os_env) IN
    IF r.err # "none" THEN r
    ELSE LET d0 == [key \in environment_variable \cap DOMAIN r.value |-> r.value[key]]
             d1 == append_path(d0, sanitized_path[1], sep)
             d2 == append_path(d1, sanitized_path[2], sep)
         IN  [err |-> "none", value |-> d2]

\* self.environ of either variant
environ(e, os_env, sep) ==
    IF e.variant = "conda_only"
    THEN CondaOnlyEnvironment_environ(os_env, sep)
    ELSE InstallEnvironment_environ(os_env)

bin(path) == str_path(path \o <<"bin">>)

\* a variant that prepends the two directories in the other order
environ_with_all_paths_swapped(e, with_compile_path, sep) ==
    prepend_path(prepend_path(with_compile_path, bin(conda_prefix(e)), sep),
                 bin(compile_prefix(e)), sep)

\* InstallEnvironment.environ_with_compile_path, from a copy of environ
environ_with_compile_path(e, base, sep) == prepend_path(base, bin(compile_prefix(e)), sep)

\* InstallEnvironment.environ_with_conda_path, from a copy of environ
environ_with_conda_path(e, base, sep) == prepend_path(base, bin(conda_prefix(e)), sep)

\* InstallEnvironment.environ_with_all_paths, from a copy of environ_with_compile_path
environ_with_all_paths(e, with_compile_path, sep) ==
    prepend_path(with_compile_path, bin(conda_prefix(e)), sep)

\* CondaOnlyEnvironment.environ_with_all_paths, from a copy of environ
CondaOnlyEnvironment_environ_with_all_paths(e, base, sep) ==
    prepend_path(base, bin(conda_prefix(e)), sep)

view_names ==
    {"environ", "environ_with_compile_path", "environ_with_conda_path",
     "environ_with_all_paths"}

\* the cached properties a read of the view fills, in the order they are filled,
\* given the ones already cached; the conda-only variant's compile and conda
\* views are plain properties that return environ_with_all_paths
view_chain(e, v) ==
    IF e.variant = "conda_only"
    THEN (IF v = "environ" THEN <<"environ">> ELSE <<"environ", "environ_with_all_paths">>)
    ELSE CASE v = "environ" -> <<"environ">>
           [] v = "environ_with_compile_path" -> <<"environ", "environ_with_compile_path">>
           [] v = "environ_with_conda_path" -> <<"environ", "environ_with_conda_path">>
           [] v = "environ_with_all_paths" ->
                <<"environ", "environ_with_compile_path", "environ_with_all_paths">>

\* one cached property computed from the cache
view_value(e, v, c, sep) ==
    CASE v = "environ_with_compile_path" -> environ_with_compile_path(e, c["environ"], sep)
      [] v = "environ_with_conda_path" -> environ_with_conda_path(e, c["environ"], sep)
      [] v = "environ_with_all_paths" ->
            IF e.variant = "conda_only"
            THEN CondaOnlyEnvironment_environ_with_all_paths(e, c["environ"], sep)
            ELSE environ_with_all_paths(e, c["environ_with_compile_path"], sep)

\* the prefix directory a cached property creates when it is computed
view_mkdir(e, v, dirs) ==
    CASE v = "environ" -> dirs
      [] v = "environ_with_compile_path" -> mkdir(dirs, compile_prefix(e))
      [] OTHER -> mkdir(dirs, conda_prefix(e))

RECURSIVE fill(_, _, _, _, _)
\* functools.cached_property: compute what is not cached yet, keep what is
fill(e, chain, c, os_env, sep) ==
    IF chain = <<>> THEN [err |-> "none", cache |-> c]
    ELSE LET v == Head(chain) IN
         IF Has(c, v) THEN fill(e, Tail(chain), c, os_env, sep)
         ELSE IF v = "environ"
         THEN LET r == environ(e, os_env, sep) IN
              IF r.err # "none" THEN [err |-> r.err, cache |-> c]
              ELSE fill(e, Tail(chain), Put(c, v, r.value), os_env, sep)
         ELSE fill(e, Tail(chain), Put(c, v, view_value(e, v, c, sep)), os_env, sep)

RECURSIVE fill_mkdir(_, _, _, _)
fill_mkdir(e, chain, c, dirs) ==
    IF chain = <<>> THEN dirs
    ELSE IF Has(c, Head(chain)) THEN fill_mkdir(e, Tail(chain), c, dirs)
    ELSE fill_mkdir(e, Tail(chain), c, view_mkdir(e, Head(chain), dirs))

\* the same views as objects: a view is a dict that the cache holds by reference,
\* and prepend_path and item assignment change the dict they are given

\* a variant that hands back the dict itself
dict_alias(h, id) == [heap |-> h, ref |-> id]

\* dict.copy(): a new dict with the items of the old
dict_copy(h, id) == [heap |-> Append(h, h[id]), ref |-> Len(h) + 1]

\* prepend_path(environ, path), in place
prepend_path_in_place(h, id, path, sep) == [h EXCEPT ![id] = prepend_path(@, path, sep)]

\* environ[k] = v
setitem(h, id, k, v) == [h EXCEPT ![id] = Put(@, k, v)]

\* one cached property computed: a copy of the view it starts from, then
\* prepend_path on the copy
view_object(e, v, h, r, sep) ==
    LET src == IF v = "environ_with_all_paths" /\ e.variant # "conda_only"
               THEN "environ_with_compile_path" ELSE "environ"
        dir == IF v = "environ_with_compile_path" THEN compile_prefix(e) ELSE conda_prefix(e)
        c   == dict_copy(h, r[src])
    IN  [heap |-> prepend_path_in_place(c.heap, c.ref, bin(dir), sep), ref |-> c.ref]

RECURSIVE fill_objects(_, _, _, _, _, _)
\* functools.cached_property, by reference: environ is a new dict (dict(os.environ),
\* or the conda-only variant's comprehension), a cached view is handed back as it is
fill_objects(e, chain, h, r, os_env, sep) ==
    IF chain = <<>> THEN [err |-> "none", heap |-> h, refs |-> r]
    ELSE LET v == Head(chain) IN
         IF Has(r, v) THEN fill_objects(e, Tail(chain), h, r, os_env, sep)
         ELSE IF v = "environ"
         THEN LET b == environ(e, os_env, sep) IN
              IF b.err # "none" THEN [err |-> b.err, heap |-> h, refs |-> r]
              ELSE fill_objects(e, Tail(chain), Append(h, b.value),
                                Put(r, v, Len(h) + 1), os_env, sep)
         ELSE LET o == view_object(e, v, h, r, sep) IN
              fill_objects(e, Tail(chain), o.heap, Put(r, v, o.ref), os_env, sep)

\* the dict a read of the view hands back: the conda-only variant's compile and
\* conda views are the all-paths view itself
view_ref(e, v, r) ==
    IF e.variant = "conda_only" /\ v # "environ" THEN r["environ_with_all_paths"] ELSE r[v]

----------------------------------------------------------------------------
(* packages: GenericPackage and the handlers conda, libmadam, toast *)

NoPkg == [kind |-> "none"]

\* the modules of pmpm.packages that define a Package
package_modules == {"conda", "libmadam", "toast"}

\* the fields of the dataclass GenericPackage; no handler adds one
package_fields == {"env", "update", "fast_update", "arch", "tune"}

\* Package.src_dir of libmadam and of toast
src_dir(e, kind) == downoad_prefix(e) \o <<kind>>

\* the directory is_installed looks for
is_installed_path(e, kind) ==
    IF kind = "conda" THEN conda_prefix(e) \o <<"etc", "conda">> ELSE src_dir(e, kind)

\* the directories is_installed creates by reading conda_prefix or downoad_prefix
is_installed_mkdir(e, kind, dirs) ==
    mkdir(dirs, IF kind = "conda" THEN conda_prefix(e) ELSE downoad_prefix(e))

\* a variant that never finds the directory
is_installed_never(e, kind, dirs) == FALSE

\* GenericPackage.is_installed, conda.Package.is_installed
is_installed(e, kind, dirs) == is_installed_path(e, kind) \in dirs

Bool(b) == IF b THEN "True" ELSE "False"

\* a variant that reads the heuristic backwards
GenericPackage_post_init_negated(update, fast_update, installed) ==
    IF update = "None"
    THEN (IF fast_update THEN "True" ELSE Bool(~installed))
    ELSE update

\* a variant that lets the heuristic override an explicit flag
GenericPackage_post_init_overriding(update, fast_update, installed) ==
    IF fast_update THEN "True" ELSE Bool(installed)

\* GenericPackage.__post_init__: the value of self.update
GenericPackage_post_init(update, fast_update, installed) ==
    IF update = "None"
    THEN (IF fast_update THEN "True" ELSE Bool(installed))
    ELSE update

\* conda.Package.__post_init__: the value of self.update
conda_Package_post_init(update, fast_update, installed) ==
    IF update = "None" THEN Bool(installed) ELSE update

\* whether __post_init__ reads is_installed
post_init_reads_is_installed(kind, update, fast_update) ==
    update = "None" /\ (kind = "conda" \/ ~fast_update)

\* Package(env, update=..., fast_update=..., arch=..., tune=...): the handler
Package(kind, e, update, fast_update, arch, tune, dirs) ==
    [ kind        |-> kind,
      update      |-> IF kind = "conda"
                      THEN conda_Package_post_init(update, fast_update, is_installed(e, kind, dirs))
                      ELSE GenericPackage_post_init(update, fast_update, is_installed(e, kind, dirs)),
      fast_update |-> fast_update,
      arch        |-> arch,
      tune        |-> tune ]

\* GenericPackage.run_all: the method it calls
GenericPackage_run_all(p) ==
    IF p.update = "True"
    THEN (IF p.fast_update THEN "update_env_fast" ELSE "update_env")
    ELSE "install_env"

\* a variant that tries the second URL again
download_retrying(kind) ==
    <<"clone_ssh", "clone_https", "clone_https">>

\* download of libmadam and of toast; toast reads self.version and checks out
download(kind) ==
    IF kind = "toast"
    THEN <<"clone_ssh", "clone_https", "self.version", "checkout">>
    ELSE <<"clone_ssh", "clone_https">>

test_step(skip_test) == IF skip_test THEN <<>> ELSE <<"_test">>

\* install_env of each handler: the steps in order
install_env(kind, skip_test) ==
    CASE kind = "conda"    -> <<"env_create", "self.activate_str", "ipykernel">>
      [] kind = "libmadam" -> download(kind)
                              \o <<"_autogen", "_configure", "_make", "_make_install",
                                   "_python_install">> \o test_step(skip_test)
      [] kind = "toast"    -> download(kind)
                              \o <<"_cmake", "_make", "_make_install">> \o test_step(skip_test)

\* update_env of each handler
update_env(kind, skip_test) ==
    CASE kind = "conda"    -> <<"env_update">>
      [] kind = "libmadam" -> <<"_autogen", "_configure", "_make", "_make_install",
                                "_python_install">> \o test_step(skip_test)
      [] kind = "toast"    -> <<"_cmake", "_make", "_make_install">> \o test_step(skip_test)

\* a variant that falls back without the warning
GenericPackage_update_env_fast_silent(kind, skip_test) == update_env(kind, skip_test)

\* GenericPackage.update_env_fast: a warning, then update_env
GenericPackage_update_env_fast(kind, skip_test) ==
    <<"warning">> \o update_env(kind, skip_test)

\* update_env_fast of each handler; conda inherits GenericPackage's
update_env_fast(kind, skip_test) ==
    CASE kind = "conda"    -> GenericPackage_update_env_fast(kind, skip_test)
      [] kind = "libmadam" -> <<"_make", "_make_install", "_python_install">>
                              \o test_step(skip_test)
      [] kind = "toast"    -> <<"_make", "_make_install">> \o test_step(skip_test)

method_body(kind, method, skip_test) ==
    CASE method = "install_env"     -> install_env(kind, skip_test)
      [] method = "update_env"      -> update_env(kind, skip_test)
      [] method = "update_env_fast" -> update_env_fast(kind, skip_test)

\* the steps that are given compiler flags: _configure of libmadam (CFLAGS and
\* FCFLAGS in its environment), _cmake of toast (CMAKE_C_FLAGS, CMAKE_CXX_FLAGS)
configure_with_flags == {"_configure", "_cmake"}

NoFlags == [march |-> <<>>, mtune |-> <<>>]

\* -march and -mtune of those flags: libmadam's are literals, toast's are the
\* handler's arch and tune
compiler_flags(p) ==
    IF p.kind = "libmadam"
    THEN [march |-> <<"native">>, mtune |-> <<"native">>]
    ELSE [march |-> p.arch, mtune |-> p.tune]

\* attribute reads of names no class defines
undefined_attributes == {"self.version", "self.activate_str"}

\* the steps that only log
logging_steps == {"warning"}

\* the view a step's process is given as env=, or starts its own mapping from
step_view(kind, step) ==
    CASE kind = "conda" -> "environ_with_conda_path"
      [] step \in {"clone_ssh", "clone_https", "checkout"} -> "environ_with_all_paths"
      [] step \in {"_autogen", "_configure", "_cmake", "_make", "_make_install"} ->
            "environ_with_compile_path"
      [] step = "_python_install" -> "environ_with_conda_path"
      [] step = "_test" -> IF kind = "toast" THEN "environ_with_all_paths"
                           ELSE "environ_with_conda_path"

\* CFLAGS and FCFLAGS of libmadam's _configure: the literal flags, then the
\* include and library directories, the SDK's too on macOS
configure_flags(e, system) ==
    LET sdk == <<"Library", "Developer", "CommandLineTools", "SDKs", "MacOSX.sdk", "usr">>
        dirs(sub) == str_path(compile_prefix(e) \o <<sub>>)
                     \o (IF system = "Darwin"
                         THEN <<pathsep(system)>> \o str_path(sdk \o <<sub>>) ELSE <<>>)
    IN  <<"-O3", "-fPIC", "-pthread", "-march=native", "-mtune=native">>
        \o <<"-I">> \o dirs("include") \o <<"-L">> \o dirs("lib")

\* the mapping libmadam's _configure builds: a copy of the compile view with the
\* compilers and the flags added
libmadam_configure_environ(e, h, id, system) ==
    LET c  == dict_copy(h, id)
        h1 == setitem(c.heap, c.ref, "MPIFC", <<"mpifort">>)
        h2 == setitem(h1, c.ref, "FC", <<"mpifort">>)
        h3 == setitem(h2, c.ref, "FCFLAGS", configure_flags(e, system))
        h4 == setitem(h3, c.ref, "CFLAGS", configure_flags(e, system))
    IN  [heap |-> h4, ref |-> c.ref]

\* the mapping toast's _test uses: with CIBUILDWHEEL in os.environ a copy of the
\* all-paths view with CIBUILDWHEEL added, else the view itself
toast_test_environ(h, id, os_env) ==
    IF Has(os_env, "CIBUILDWHEEL")
    THEN LET c == dict_copy(h, id)
         IN  [heap |-> setitem(c.heap, c.ref, "CIBUILDWHEEL", os_env["CIBUILDWHEEL"]),
              ref |-> c.ref]
    ELSE [heap |-> h, ref |-> id]

\* the mapping a step gives its process, once the view is read
step_environ(e, kind, step, h, r, os_env, system) ==
    LET id == view_ref(e, step_view(kind, step), r) IN
    IF step = "_configure" THEN libmadam_configure_environ(e, h, id, system)
    ELSE IF kind = "toast" /\ step = "_test" THEN toast_test_environ(h, id, os_env)
    ELSE [heap |-> h, ref |-> id]

\* the cached prefixes a step reads, each created on first read: through the
\* environment view it passes to the process, through src_dir or build_dir,
\* through activate_cmd
step_reads(kind, step) ==
    CASE step \in undefined_attributes \cup logging_steps -> {}
      [] kind = "conda" -> {"conda"}
      [] step \in {"clone_ssh", "clone_https", "checkout"} -> {"download", "compile", "conda"}
      [] step = "_configure" -> {"download", "compile", "conda"}
      [] step \in {"_autogen", "_cmake", "_make", "_make_install"} -> {"download", "compile"}
      [] step = "_python_install" -> {"download", "conda"}
      [] step = "_test" -> IF kind = "toast" THEN {"compile", "conda"}
                           ELSE {"download", "conda"}

\* the directories a step leaves behind: the prefixes it reads, the source tree
\* of a clone that succeeds, build_dir of toast's build steps
step_mkdir(e, kind, step, ok, dirs) ==
    LET r  == step_reads(kind, step)
        d0 == IF "conda" \in r THEN mkdir(dirs, conda_prefix(e)) ELSE dirs
        d1 == IF "compile" \in r THEN mkdir(d0, compile_prefix(e)) ELSE d0
        d2 == IF "download" \in r THEN mkdir(d1, downoad_prefix(e)) ELSE d1
        d3 == IF step \in {"clone_ssh", "clone_https"} /\ ok
              THEN mkdir(d2, src_dir(e, kind)) ELSE d2
        d4 == IF kind = "toast" /\ step \in {"_cmake", "_make", "_make_install"}
              THEN mkdir(d3, src_dir(e, kind) \o <<"build">>) ELSE d3
    IN  d4

----------------------------------------------------------------------------
(* The program: a descriptor is constructed, then run_all runs, or a handler
   is constructed and run directly *)

MaxPathEntries == 4

Event(who, what) == [who |-> who, what |-> what]

\* subprocess.run of a step: the process and its exit status
Exit(who, what, code) == [who |-> who, what |-> what, code |-> code]

\* no invocation came before
NoRun == [kind |-> "none", runs |-> 0]

Given(update, fast_update, is_dir) ==
    [update |-> update, fast_update |-> fast_update, is_dir |-> is_dir]

\* cls(prefix, ...): InstallEnvironment.__init__ and __post_init__
Construct ==
    /\ epc = "new"
    /\ LET r == construct(args, host) IN
         /\ env' = r.env
         /\ err' = r.err
         /\ epc' = IF r.err = "none" THEN "ready" ELSE "failed"
    /\ UNCHANGED <<exits, previous, cflags, args, host, fs, manifest, pkg, ppc, todo, queue, log, given, views, loaded>>

\* append_env(env.conda_dependencies, package), called on a constructed descriptor
AppendEnv(package) ==
    /\ epc = "ready"
    /\ env' = [env EXCEPT !.conda_dependencies = append_env(@, package)]
    /\ UNCHANGED <<exits, previous, cflags, args, host, epc, fs, manifest, pkg, ppc, todo, queue, log, err, given, views, loaded>>

\* a read of one of the descriptor's environment views (a cached property)
ReadView(v) ==
    /\ epc = "ready"
    /\ LET chain == view_chain(env, v)
           r == fill(env, chain, cache, os_environ, pathsep(host.system))
           o == fill_objects(env, chain, heap, refs, os_environ, pathsep(host.system))
       IN  /\ cache' = r.cache
           /\ heap' = o.heap
           /\ refs' = o.refs
           /\ fs' = IF r.err = "none" THEN fill_mkdir(env, chain, cache, fs) ELSE fs
           /\ err' = r.err
           /\ epc' = IF r.err = "none" THEN epc ELSE "failed"
    /\ UNCHANGED <<exits, previous, cflags, env, args, host, manifest, pkg, ppc, todo, queue, log, given,
                   os_environ, scratch, penv, loaded>>

\* the number of entries of the PATH of a mapping
path_entries(d, sep) == IF Has(d, "PATH") THEN Len(split(d["PATH"], sep)) ELSE 0

\* prepend_path(scratch, path)
PrependPath(path) ==
    /\ path_entries(scratch, pathsep(host.system)) < MaxPathEntries
    /\ scratch' = prepend_path(scratch, path, pathsep(host.system))
    /\ UNCHANGED <<exits, previous, cflags, env, args, host, epc, fs, manifest, pkg, ppc, todo, queue, log, err,
                   given, os_environ, cache, heap, refs, penv, loaded>>

\* append_path(scratch, path)
AppendPath(path) ==
    /\ path_entries(scratch, pathsep(host.system)) < MaxPathEntries
    /\ scratch' = append_path(scratch, path, pathsep(host.system))
    /\ UNCHANGED <<exits, previous, cflags, env, args, host, epc, fs, manifest, pkg, ppc, todo, queue, log, err,
                   given, os_environ, cache, heap, refs, penv, loaded>>

NotLoaded == [cls |-> "none", err |-> "unread", env |-> NoEnv]

\* cls.read_dict(path) of a later invocation: from_dict of what write_dict wrote;
\* json.dump and json.load keep strings, lists, booleans and None as they are
ReadDict(cls) ==
    /\ manifest # <<>>
    /\ loaded = NotLoaded
    /\ LET r == from_dict(cls, manifest[1], host)
       IN  loaded' = [cls |-> cls, err |-> r.err, env |-> r.env]
    /\ UNCHANGED <<exits, previous, cflags, env, args, host, epc, fs, manifest, pkg, ppc, todo, queue, log, err,
                   given, views>>

\* run_all, first statement: write_dict
WriteDict ==
    /\ epc = "ready"
    /\ manifest' = <<to_dict(env)>>
    /\ fs' = mkdir(fs, env.prefix)
    /\ log' = Append(log, Event("env", "write_dict"))
    /\ epc' = IF env.skip_conda THEN "deps" ELSE "conda"
    /\ UNCHANGED <<exits, previous, cflags, env, args, host, pkg, ppc, todo, queue, err, given, views, loaded>>

\* run_all: Package(self, update=self.update, fast_update=self.fast_update) of conda
NewConda ==
    /\ epc = "conda"
    /\ LET d == IF post_init_reads_is_installed("conda", env.update, env.fast_update)
                THEN is_installed_mkdir(env, "conda", fs) ELSE fs
       IN  /\ pkg' = Package("conda", env, env.update, env.fast_update,
                             DefaultArgs("general").arch, DefaultArgs("general").tune, d)
           /\ fs' = d
    /\ given' = Given(env.update, env.fast_update, is_installed(env, "conda", fs))
    /\ ppc' = "constructed"
    /\ epc' = "conda_run"
    /\ UNCHANGED <<exits, previous, cflags, env, args, host, manifest, todo, queue, log, err, views, loaded>>

\* a handler constructed directly: Package(env, update=u, fast_update=f)
NewPackage(kind, u, f) ==
    /\ epc = "ready"
    /\ LET d == IF post_init_reads_is_installed(kind, u, f)
                THEN is_installed_mkdir(env, kind, fs) ELSE fs
       IN  /\ pkg' = Package(kind, env, u, f,
                             DefaultArgs("general").arch, DefaultArgs("general").tune, d)
           /\ fs' = d
    /\ given' = Given(u, f, is_installed(env, kind, fs))
    /\ ppc' = "constructed"
    /\ epc' = "direct"
    /\ UNCHANGED <<exits, previous, cflags, env, args, host, manifest, todo, queue, log, err, views, loaded>>

\* GenericPackage.run_all: the call of install_env, update_env or update_env_fast
PackageRunAll ==
    /\ ppc = "constructed"
    /\ LET m == GenericPackage_run_all(pkg) IN
         /\ todo' = method_body(pkg.kind, m, env.skip_test)
         /\ log' = Append(log, Event(pkg.kind, m))
    /\ ppc' = "running"
    /\ UNCHANGED <<exits, previous, cflags, env, args, host, epc, fs, manifest, pkg, queue, err, given, views, loaded>>

\* a variant in which the handler carries on after the exception
Raise_swallowed(e) ==
    /\ todo' = Tail(todo)
    /\ UNCHANGED <<err, ppc, epc>>

\* the exception leaves the handler and run_all
Raise(e) ==
    /\ err' = e
    /\ ppc' = "failed"
    /\ epc' = "failed"
    /\ todo' = <<>>

\* one step of the method: a log line, an attribute read, or an external process
\* that exits with zero or not, given the view the step reads (or the mapping it
\* builds from it) as its environment; conda env create, finished or not, may
\* have unpacked a package with activation scripts, which live in etc/conda
Step ==
    /\ ppc = "running"
    /\ todo # <<>>
    /\ LET step  == Head(todo)
           sep   == pathsep(host.system)
           chain == IF step \in logging_steps \cup undefined_attributes THEN <<>>
                    ELSE view_chain(env, step_view(pkg.kind, step))
           c     == fill(env, chain, cache, os_environ, sep)
           o     == fill_objects(env, chain, heap, refs, os_environ, sep)
       IN
       IF c.err # "none"
       THEN \* the view cannot be computed: no process is run
            /\ cache' = c.cache
            /\ heap' = o.heap
            /\ refs' = o.refs
            /\ IF step = "clone_ssh"
               THEN /\ todo' = Tail(todo)
                    /\ UNCHANGED <<err, ppc, epc>>
               ELSE Raise(c.err)
            /\ UNCHANGED <<log, exits, cflags, fs, penv>>
       ELSE
       \E ok \in BOOLEAN, activation \in BOOLEAN :
         /\ step \in logging_steps \cup undefined_attributes => ok
         /\ activation => step = "env_create"
         /\ log' = Append(log, Event(pkg.kind, step))
         /\ exits' = IF step \in logging_steps \cup undefined_attributes THEN exits
                      ELSE Append(exits, Exit(pkg.kind, step, IF ok THEN 0 ELSE 1))
         /\ cflags' = IF step \in configure_with_flags THEN compiler_flags(pkg) ELSE cflags
         /\ cache' = c.cache
         /\ refs' = o.refs
         /\ IF chain = <<>>
            THEN UNCHANGED <<heap, penv>>
            ELSE LET given_env == step_environ(env, pkg.kind, step, o.heap, o.refs,
                                               os_environ, host.system)
                 IN  /\ heap' = given_env.heap
                     /\ penv' = given_env.ref
         /\ fs' = IF activation
                  THEN mkdir(step_mkdir(env, pkg.kind, step, ok, fs), is_installed_path(env, "conda"))
                  ELSE step_mkdir(env, pkg.kind, step, ok, fs)
         /\ IF step \in undefined_attributes
            THEN Raise("AttributeError")
            ELSE IF step = "clone_ssh"
            THEN \* try: ... except Exception: the second URL
                 /\ todo' = IF ok THEN Tail(Tail(todo)) ELSE Tail(todo)
                 /\ UNCHANGED <<err, ppc, epc>>
            ELSE IF ~ok
            THEN Raise("CalledProcessError")
            ELSE /\ todo' = Tail(todo)
                 /\ UNCHANGED <<err, ppc, epc>>
    /\ UNCHANGED <<previous, env, args, host, manifest, pkg, queue, given, os_environ, scratch,
                   loaded>>

\* the method returns: package.run_all() is over
PackageReturn ==
    /\ ppc = "running"
    /\ todo = <<>>
    /\ ppc' = "done"
    /\ pkg' = IF epc = "direct" THEN pkg ELSE NoPkg
    /\ epc' = CASE epc = "conda_run" -> "deps"
                [] epc = "dep_run"   -> "loop"
                [] OTHER             -> epc
    /\ UNCHANGED <<exits, previous, cflags, env, args, host, fs, manifest, todo, queue, log, err, given, views, loaded>>

\* run_all: self.dependencies_versioned is read when the loop starts
ResolveDependencies ==
    /\ epc = "deps"
    /\ LET r == dependencies_versioned(env.dependencies) IN
         /\ queue' = r.items
         /\ err' = r.err
         /\ epc' = IF r.err = "none" THEN "loop" ELSE "failed"
    /\ UNCHANGED <<exits, previous, cflags, env, args, host, fs, manifest, pkg, ppc, todo, log, given, views, loaded>>

\* the keyword arguments run_all passes to a dependency's Package
run_all_kwargs == {"update", "fast_update", "arch", "tune", "version"}

\* run_all, one turn of the loop: import_module, then Package(self, ..., version=ver)
Dispatch ==
    /\ epc = "loop"
    /\ queue # <<>>
    /\ LET dep == Head(queue).name IN
       IF ~(Len(dep) = 1 /\ dep[1] \in package_modules)
       THEN /\ err' = "RuntimeError"
            /\ epc' = "failed"
            /\ UNCHANGED <<pkg, ppc, fs, queue, given>>
       ELSE IF ~(run_all_kwargs \subseteq package_fields)
       THEN /\ err' = "TypeError"
            /\ epc' = "failed"
            /\ UNCHANGED <<pkg, ppc, fs, queue, given>>
       ELSE LET kind == dep[1]
                d == IF post_init_reads_is_installed(kind, env.update, env.fast_update)
                     THEN is_installed_mkdir(env, kind, fs) ELSE fs
            IN  /\ pkg' = Package(kind, env, env.update, env.fast_update,
                                  env.arch, env.tune, d)
                /\ fs' = d
                /\ given' = Given(env.update, env.fast_update, is_installed(env, kind, fs))
                /\ ppc' = "constructed"
                /\ epc' = "dep_run"
                /\ queue' = Tail(queue)
                /\ UNCHANGED err
    /\ UNCHANGED <<exits, previous, cflags, env, args, host, manifest, todo, log, views, loaded>>

\* run_all returns
Finish ==
    /\ epc = "loop"
    /\ queue = <<>>
    /\ epc' = "done"
    /\ UNCHANGED <<exits, previous, cflags, env, args, host, fs, manifest, pkg, ppc, todo, queue, log, err, given, views, loaded>>

----------------------------------------------------------------------------
(* The inputs *)

Tri == {"None", "True", "False"}

\* an os.environ with conda activated
DefaultEnviron ==
    [ CONDA_EXE |-> <<"/", "opt", "/", "conda", "/", "bin", "/", "conda">>,
      HOME      |-> <<"/", "home">>,
      PATH      |-> <<"/", "usr", "/", "bin">> ]

\* the hosts: platform.system() and what the CPU vendor probe gives
Hosts ==
    { [system |-> "Linux",   cpu |-> "GenuineIntel"],
      [system |-> "Darwin",  cpu |-> "AuthenticAMD"],
      [system |-> "Windows", cpu |-> "GenuineIntel"],
      [system |-> "Java",    cpu |-> "GenuineIntel"] }

\* the pmpm dependency lists run_all is given
DependencyLists ==
    { <<>>,
      DEPENDENCIES,
      << <<"toast", EQ, "toast3">>, <<"libmadam">> >>,
      << <<"libmadam", EQ, "1", EQ, "2">> >>,
      << <<"libmadam">>, <<"toast", EQ, "toast3", EQ, "x">> >>,
      << <<"healpix">>, <<"libmadam">> >>,
      << <<"libmadam">>, <<"healpix">> >> }

\* the directories a run may find: what earlier runs under the default names left
InstalledDirs ==
    { is_installed_path(DefaultArgs("general"), kind) : kind \in package_modules }

RECURSIVE mkdirs(_, _)
mkdirs(dirs, paths) ==
    IF paths = {} THEN dirs
    ELSE LET path == CHOOSE x \in paths : TRUE
         IN  mkdirs(mkdir(dirs, path), paths \ {path})

InitialDirs == { mkdirs({}, paths) : paths \in SUBSET InstalledDirs }

InitCommon ==
    /\ env = NoEnv
    /\ epc = "new"
    /\ manifest = <<>>
    /\ pkg = NoPkg
    /\ ppc = "none"
    /\ todo = <<>>
    /\ queue = <<>>
    /\ log = <<>>
    /\ err = "none"
    /\ given = Given("None", FALSE, FALSE)
    /\ cache = EmptyDict
    /\ loaded = NotLoaded
    /\ exits = <<>>
    /\ previous = NoRun
    /\ cflags = NoFlags
    /\ heap = <<>>
    /\ refs = EmptyDict
    /\ penv = 0

\* the program: the CLI constructs a descriptor of the general variant and calls run_all
Init ==
    /\ InitCommon
    /\ scratch = EmptyDict
    /\ os_environ = DefaultEnviron
    /\ host \in Hosts
    /\ fs \in InitialDirs
    /\ \E u \in Tri, f \in BOOLEAN, sc \in BOOLEAN, st \in BOOLEAN, d \in DependencyLists :
         args = [ DefaultArgs("general") EXCEPT
                    !.update = u, !.fast_update = f, !.skip_conda = sc,
                    !.skip_test = st, !.dependencies = d ]

Next ==
    \/ Construct
    \/ WriteDict
    \/ NewConda
    \/ PackageRunAll
    \/ Step
    \/ PackageReturn
    \/ ResolveDependencies
    \/ Dispatch
    \/ Finish

Spec == Init /\ [][Next]_vars

\* the handlers used directly: any handler, any update flag, any fast_update
InitPackage ==
    /\ InitCommon
    /\ scratch = EmptyDict
    /\ os_environ = DefaultEnviron
    /\ host \in {h \in Hosts : h.system \in {"Linux", "Darwin"}}
    /\ fs \in InitialDirs
    /\ \E st \in BOOLEAN : args = [DefaultArgs("general") EXCEPT !.skip_test = st]

NextPackage ==
    \/ Construct
    \/ \E kind \in package_modules, u \in Tri, f \in BOOLEAN : NewPackage(kind, u, f)
    \/ PackageRunAll
    \/ Step
    \/ PackageReturn

SpecPackage == InitPackage /\ [][NextPackage]_vars

----------------------------------------------------------------------------
(* The dependency lists: append_env and dependencies_versioned *)

MaxCondaDependencies == 2
MaxDependencies == 2
MaxDependencyLength == 3

SeqsUpTo(S, n) == UNION { [1..k -> S] : k \in 0..n }

\* the conda packages the lists are drawn from
CondaPackages ==
    { <<"numpy">>, <<"python", EQ, "3.10">>, <<"nomkl">>, <<"matplotlib">>,
      <<"matplotlib-base">> }

\* the packages append_env is called with after construction
AppendedPackages == { <<"numpy">>, <<"python", EQ, "3.10">>, <<"nomkl">> }

\* the pmpm dependency strings: every string of a name and "=" up to the bound,
\* and three of the usual shape
DependencyStrings ==
    SeqsUpTo({"libmadam", EQ}, MaxDependencyLength)
        \cup { <<"toast", EQ, "toast3">>, <<"libmadam", EQ, "1", EQ, "2">>, <<"healpix">> }

\* the hosts, and two whose CPU vendor probe fails
ProbeHosts ==
    Hosts \cup { [system |-> "Linux", cpu |-> "ImportError"],
                 [system |-> "Linux", cpu |-> "Exception"] }

\* a descriptor of either variant is constructed from any conda dependency list,
\* or from any pmpm dependency list, and run_all starts with skip_conda set
InitDependencies ==
    /\ InitCommon
    /\ scratch = EmptyDict
    /\ os_environ = DefaultEnviron
    /\ fs = {}
    /\ \/ /\ host \in ProbeHosts
          /\ \E v \in {"general", "conda_only"}, n \in Tri,
                pv \in { <<"3.10">>, <<"3.11">> },
                cd \in SeqsUpTo(CondaPackages, MaxCondaDependencies) :
               args = [ DefaultArgs(v) EXCEPT
                          !.conda_dependencies = cd, !.python_version = pv,
                          !.nomkl = n, !.skip_conda = TRUE ]
       \/ /\ host \in { h \in Hosts : h.system \in {"Linux", "Windows"} }
          /\ \E d \in SeqsUpTo(DependencyStrings, MaxDependencies) :
               args = [ DefaultArgs("general") EXCEPT
                          !.conda_dependencies = <<>>, !.dependencies = d,
                          !.skip_conda = TRUE ]

NextDependencies ==
    \/ Construct
    \/ \E package \in AppendedPackages : AppendEnv(package)
    \/ WriteDict
    \/ ResolveDependencies

SpecDependencies == InitDependencies /\ [][NextDependencies]_vars

count(list, x) == Cardinality({ i \in 1..Len(list) : list[i] = x })

duplicate_free(list) == \A i, j \in 1..Len(list) : list[i] = list[j] => i = j

\* the only package __post_init__ appends without append_env (on Windows)
appended_directly == { <<"matplotlib-base">> }

\* C8: append_env of a package the list holds changes nothing; append_env of any
\* package adds no second occurrence of a package; and a descriptor constructed
\* from a duplicate-free list holds each package that append_env adds (the
\* pinned python entry, nomkl, and the conda-only variant's) at most once.
C8_AppendEnvIdempotent ==
    [][ /\ \A package \in AppendedPackages :
             (AppendEnv(package) /\ package \in Range(env.conda_dependencies))
                 => env' = env
        /\ \A package \in AppendedPackages :
             AppendEnv(package)
                 => \A x \in Range(env'.conda_dependencies) :
                       count(env'.conda_dependencies, x)
                           = IF x \in Range(env.conda_dependencies)
                             THEN count(env.conda_dependencies, x) ELSE 1
        /\ (env'.variant # "none" /\ duplicate_free(args.conda_dependencies))
             => \A x \in Range(env'.conda_dependencies) \ appended_directly :
                   count(env'.conda_dependencies, x) = 1 ]_vars

\* a descriptor constructed from a list that held python=3.10 and nomkl, with
\* nomkl in force, to which append_env was then applied again
C8_Witness ==
    /\ epc = "ready"
    /\ host.cpu = "AuthenticAMD"
    /\ args.conda_dependencies = << <<"python", EQ, "3.10">>, <<"nomkl">> >>
    /\ args.python_version = <<"3.10">>
    /\ env.nomkl = "True"
    /\ env.conda_dependencies = << <<"python", EQ, "3.10">>, <<"nomkl">>, <<"numpy">> >>

equals_signs(dep) == Cardinality({ i \in 1..Len(dep) : dep[i] = EQ })

\* the part of a dependency string before its first "=", and the part after it
before_equals(dep) ==
    IF equals_signs(dep) = 0 THEN dep
    ELSE SubSeq(dep, 1, (CHOOSE i \in 1..Len(dep) : dep[i] = EQ) - 1)
after_equals(dep) ==
    SubSeq(dep, (CHOOSE i \in 1..Len(dep) : dep[i] = EQ) + 1, Len(dep))

\* the last string of the list with the given name
last_with_name(deps, n) ==
    deps[CHOOSE i \in 1..Len(deps) :
            /\ before_equals(deps[i]) = n
            /\ \A j \in (i + 1)..Len(deps) : before_equals(deps[j]) # n]

resolved == env.variant # "none" /\ epc \in {"loop", "failed"}

\* C9: dependencies_versioned succeeds exactly when every dependency string has
\* at most one "="; the map then gives a name without "=" no version and a name
\* with one "=" the part after it; a string with two or more "=" gives RuntimeError.
C9_DependenciesVersioned ==
    resolved =>
        IF \A i \in 1..Len(env.dependencies) : equals_signs(env.dependencies[i]) <= 1
        THEN /\ epc = "loop" /\ err = "none"
             /\ { queue[i].name : i \in 1..Len(queue) }
                    = { before_equals(env.dependencies[i]) : i \in 1..Len(env.dependencies) }
             /\ \A i \in 1..Len(queue) :
                   LET dep == last_with_name(env.dependencies, queue[i].name) IN
                   queue[i].version = IF equals_signs(dep) = 0 THEN <<>>
                                      ELSE <<after_equals(dep)>>
        ELSE epc = "failed" /\ err = "RuntimeError" /\ queue = <<>>

C9_Witness ==
    /\ resolved /\ epc = "loop"
    /\ env.dependencies = << <<"libmadam">>, <<"toast", EQ, "toast3">> >>
    /\ queue = << [name |-> <<"libmadam">>, version |-> <<>>],
                  [name |-> <<"toast">>, version |-> << <<"toast3">> >>] >>

C9_WitnessMalformed ==
    /\ resolved /\ epc = "failed" /\ err = "RuntimeError"
    /\ env.dependencies = << <<"libmadam">>, <<"libmadam", EQ, "1", EQ, "2">> >>

----------------------------------------------------------------------------
(* PATH composition: prepend_path and append_path *)

\* the directories put on PATH
SomePaths == { <<"/", "a">>, <<"/", "b">>, <<"/", "usr", "/", "bin">> }

\* the mappings the functions are first called on
SomeMappings ==
    { EmptyDict,
      [PATH |-> <<"/", "b">>],
      [HOME |-> <<"/", "home">>],
      [HOME |-> <<"/", "home">>, PATH |-> <<"/", "b">>, TERM |-> <<"xterm">>] }

InitPath ==
    /\ InitCommon
    /\ fs = {}
    /\ host \in { h \in Hosts : h.system \in supported_systems }
    /\ args = DefaultArgs("general")
    /\ os_environ = DefaultEnviron
    /\ \E d \in SomeMappings : scratch = d

NextPath ==
    \/ \E path \in SomePaths : PrependPath(path)
    \/ \E path \in SomePaths : AppendPath(path)

SpecPath == InitPath /\ [][NextPath]_vars

\* C7: prepend_path gives a mapping without PATH the path as its PATH, gives a
\* mapping whose PATH is b the path, the host's separator, then b, so that the
\* path is the first entry and the old entries follow; no other entry changes.
C7_PrependPath ==
    [][ \A path \in SomePaths : PrependPath(path) =>
          LET sep == pathsep(host.system) IN
          /\ DOMAIN scratch' = DOMAIN scratch \cup {"PATH"}
          /\ \A k \in DOMAIN scratch \ {"PATH"} : scratch'[k] = scratch[k]
          /\ IF "PATH" \in DOMAIN scratch
             THEN /\ scratch'["PATH"] = path \o <<sep>> \o scratch["PATH"]
                  /\ split(scratch'["PATH"], sep) = <<path>> \o split(scratch["PATH"], sep)
             ELSE scratch'["PATH"] = path ]_vars

\* prepend_path({}, "/a") then prepend_path(., "/b"), and the same from {"PATH": "/b"}
C7_Witness ==
    /\ host.system = "Linux"
    /\ scratch = [PATH |-> <<"/", "a", ":", "/", "b">>]

C7_WitnessFresh ==
    /\ host.system = "Windows"
    /\ scratch = [HOME |-> <<"/", "home">>, PATH |-> <<"/", "a">>]

----------------------------------------------------------------------------
(* The environment views of the descriptor *)

RECURSIVE join(_, _)
\* sep.join(entries)
join(entries, sep) ==
    IF entries = <<>> THEN <<>>
    ELSE IF Len(entries) = 1 THEN entries[1]
    ELSE entries[1] \o <<sep>> \o join(Tail(entries), sep)

\* the variables os.environ may hold besides PATH; CONDA_PREFIX is the activated
\* environment's, LD_LIBRARY_PATH is a variable no whitelist names
AmbientVariables ==
    [ CONDA_EXE       |-> <<"/", "opt", "/", "conda", "/", "bin", "/", "conda">>,
      CONDA_PREFIX    |-> <<"/", "opt", "/", "conda", "/", "envs", "/", "x">>,
      HOME            |-> <<"/", "home">>,
      LD_LIBRARY_PATH |-> <<"/", "lib">> ]

\* the entries of the ambient PATH: none, the system's, or ones that already name
\* the prefix directories of an earlier activation
AmbientPaths ==
    { <<>>,
      << <<"/", "usr", "/", "bin">> >>,
      << <<"/", "usr", "/", "bin">>, <<"/", "tmp", "/", "env1", "/", "compile", "/", "bin">> >>,
      << <<"/", "tmp", "/", "env1", "/", "compile", "/", "bin">>,
         <<"/", "tmp", "/", "env1", "/", "conda", "/", "bin">>, <<"/", "bin">> >> }

\* the values os.environ may have: any of the variables, with or without a PATH
SomeEnvirons(sep) ==
    { IF p = <<>> THEN [k \in keys |-> AmbientVariables[k]]
      ELSE [k \in keys \cup {"PATH"} |->
              IF k = "PATH" THEN join(p, sep) ELSE AmbientVariables[k]] :
        keys \in SUBSET DOMAIN AmbientVariables, p \in AmbientPaths }

SomePrefixNames == { <<>>, <<"conda">>, <<"compile">> }

InitEnviron ==
    /\ InitCommon
    /\ scratch = EmptyDict
    /\ fs = {}
    /\ host \in { h \in Hosts : h.system \in supported_systems }
    /\ os_environ \in SomeEnvirons(pathsep(host.system))
    /\ \E v \in {"general", "conda_only"}, cn \in SomePrefixNames, pn \in SomePrefixNames :
         args = [ DefaultArgs(v) EXCEPT
                    !.conda_prefix_name = cn, !.compile_prefix_name = pn,
                    !.conda_dependencies = <<>> ]

NextEnviron ==
    \/ Construct
    \/ \E v \in view_names : ReadView(v)

SpecEnviron == InitEnviron /\ [][NextEnviron]_vars

\* the entries of the PATH of the cached all-paths view
all_paths_entries ==
    split(cache["environ_with_all_paths"]["PATH"], pathsep(host.system))

\* the place of the first entry equal to x, or 0
first_entry(entries, x) ==
    IF x \notin Range(entries) THEN 0
    ELSE CHOOSE i \in 1..Len(entries) :
            entries[i] = x /\ \A j \in 1..(i - 1) : entries[j] # x

all_paths_read == env.variant = "general" /\ Has(cache, "environ_with_all_paths")

\* C6 as stated: in the PATH of the all-paths view of the general variant the
\* compile-prefix bin directory comes before the conda-prefix bin directory
\* (when the two are different directories).
C6_CompileBeforeConda ==
    (all_paths_read /\ compile_prefix(env) # conda_prefix(env)) =>
        /\ first_entry(all_paths_entries, bin(compile_prefix(env))) > 0
        /\ first_entry(all_paths_entries, bin(conda_prefix(env))) > 0
        /\ first_entry(all_paths_entries, bin(compile_prefix(env)))
              < first_entry(all_paths_entries, bin(conda_prefix(env)))

\* C6 amended: the PATH of the all-paths view of the general variant starts with
\* the conda-prefix bin directory, then the compile-prefix bin directory, then
\* the entries of the ambient PATH: the conda-prefix bin directory is never
\* after the compile-prefix bin directory, for any prefix names and ambient PATH.
C6_CondaBeforeCompile ==
    all_paths_read =>
        /\ Len(all_paths_entries) >= 2
        /\ all_paths_entries[1] = bin(conda_prefix(env))
        /\ all_paths_entries[2] = bin(compile_prefix(env))
        /\ SubSeq(all_paths_entries, 3, Len(all_paths_entries))
              = (IF Has(os_environ, "PATH")
                 THEN split(os_environ["PATH"], pathsep(host.system)) ELSE <<>>)
        /\ first_entry(all_paths_entries, bin(conda_prefix(env)))
              <= first_entry(all_paths_entries, bin(compile_prefix(env)))

\* the all-paths view read under the default prefix names, on a host whose PATH
\* already named both directories, the compile one first
C6_Witness ==
    /\ all_paths_read
    /\ env.conda_prefix_name = <<"conda">> /\ env.compile_prefix_name = <<"compile">>
    /\ Has(os_environ, "PATH") /\ Len(split(os_environ["PATH"], pathsep(host.system))) = 3
    /\ Len(all_paths_entries) = 5

----------------------------------------------------------------------------
(* The manifest: to_dict, write_dict, from_dict *)

\* descriptors of either variant that differ in the fields the manifest records
InitManifest ==
    /\ InitCommon
    /\ scratch = EmptyDict
    /\ os_environ = DefaultEnviron
    /\ fs = {}
    /\ host \in { h \in Hosts : h.system \in {"Linux", "Windows"} }
    /\ \E v \in {"general", "conda_only"}, u \in Tri, n \in Tri,
          p \in { <<"tmp", "env1">>, <<"env2">> },
          a \in { <<"x86-64-v3">>, <<"native">> }, t \in { <<"generic">>, <<"native">> },
          d \in { DEPENDENCIES, << <<"libmadam">> >> } :
         args = [ DefaultArgs(v) EXCEPT
                    !.prefix = p, !.update = u, !.nomkl = n, !.arch = a, !.tune = t,
                    !.dependencies = d ]

NextManifest ==
    \/ Construct
    \/ WriteDict
    \/ \E cls \in {"general", "conda_only"} : ReadDict(cls)

SpecManifest == InitManifest /\ [][NextManifest]_vars

\* C5: from_dict applied to the manifest of a descriptor succeeds and gives a
\* descriptor whose manifest is the same, prefix, architecture and tuning included.
C5_RoundTrip ==
    (loaded # NotLoaded /\ loaded.cls = env.variant)
        => /\ loaded.err = "none"
           /\ to_dict(loaded.env) = manifest[1]

----------------------------------------------------------------------------
(* The execution policy of the handlers *)

methods == {"install_env", "update_env", "update_env_fast"}

\* the methods run_all of the handler in use has called
called == { log[i].what : i \in { j \in 1..Len(log) :
                                    log[j].who = pkg.kind /\ log[j].what \in methods } }

\* what the handler in use logged and ran since run_all called its method
RECURSIVE since_call(_)
since_call(l) ==
    IF l = <<>> \/ l[Len(l)].what \in methods THEN <<>>
    ELSE Append(since_call(SubSeq(l, 1, Len(l) - 1)), l[Len(l)].what)

dispatched == pkg.kind # "none" /\ ppc \in {"running", "done", "failed"}

\* C1: a handler constructed with update unset and fast_update false runs
\* install_env exactly when the directory is_installed looks for did not exist
\* at construction, and update_env exactly when it did.
C1_AutoDetect ==
    (dispatched /\ given.update = "None" /\ ~given.fast_update)
        => called = (IF given.is_dir THEN {"update_env"} ELSE {"install_env"})

C1_Witness ==
    /\ dispatched /\ pkg.kind = "toast"
    /\ given.update = "None" /\ ~given.fast_update /\ given.is_dir
    /\ called = {"update_env"}
    /\ ppc = "done"

\* C2: every handler, conda included, constructed with update unset and
\* fast_update true runs update_env_fast whether or not its directory exists.
C2_FastUpdateSelected ==
    (dispatched /\ given.update = "None" /\ given.fast_update)
        => called = {"update_env_fast"}

\* C3: an explicit update flag decides alone: False gives install_env, True
\* gives update_env_fast when fast_update is set and update_env otherwise,
\* whether or not the directory is_installed looks for exists.
C3_ExplicitFlag ==
    (dispatched /\ given.update # "None")
        => /\ pkg.update = given.update
           /\ called = (IF given.update = "False" THEN {"install_env"}
                        ELSE IF given.fast_update THEN {"update_env_fast"}
                        ELSE {"update_env"})

C3_Witness ==
    /\ dispatched /\ pkg.kind = "libmadam"
    /\ given.update = "False" /\ given.fast_update /\ given.is_dir
    /\ called = {"install_env"}
    /\ Len(since_call(log)) > 0

\* C4: when run_all calls update_env_fast on the conda handler, which has none
\* of its own, a warning is logged, then update_env runs (conda env update),
\* and the only error possible is that process failing.
C4_FastUpdateFallback ==
    (dispatched /\ pkg.kind = "conda" /\ called = {"update_env_fast"})
        => /\ \/ since_call(log) = <<>> /\ todo = <<"warning">> \o update_env("conda", env.skip_test)
              \/ since_call(log) = <<"warning">> /\ todo = update_env("conda", env.skip_test)
              \/ since_call(log) = <<"warning">> \o update_env("conda", env.skip_test) /\ todo = <<>>
           /\ err # "none" => /\ err = "CalledProcessError"
                              /\ since_call(log) = <<"warning", "env_update">>
           /\ ppc = "done" => err = "none"

C4_Witness ==
    /\ dispatched /\ pkg.kind = "conda" /\ called = {"update_env_fast"}
    /\ since_call(log) = <<"warning", "env_update">>
    /\ ppc = "done" /\ err = "none"

----------------------------------------------------------------------------
(* When a malformed dependency is reported *)

malformed(dep) == Len(split(dep, EQ)) > 2

\* the external processes of the conda handler
conda_processes == {"env_create", "env_update", "ipykernel"}

\* C10: with a malformed pmpm dependency (two or more "=") the error is raised
\* at construction: the manifest is never written and no process of the conda
\* handler ever runs.
C10_MalformedBeforeAnything ==
    (\E i \in 1..Len(args.dependencies) : malformed(args.dependencies[i]))
        => \A j \in 1..Len(log) :
              /\ log[j].what # "write_dict"
              /\ ~(log[j].who = "conda" /\ log[j].what \in conda_processes)

----------------------------------------------------------------------------
(* The conda-only variant run from the CLI: conda_install, then run_all *)

\* the CLI's conda_install: a CondaOnlyEnvironment with any two prefix names
InitCondaOnly ==
    /\ InitCommon
    /\ scratch = EmptyDict
    /\ os_environ = DefaultEnviron
    /\ host \in Hosts
    /\ fs \in { {}, mkdirs({}, {<<"tmp", "env1", "etc", "conda">>}) }
    /\ \E cn \in SomePrefixNames, pn \in SomePrefixNames, sc \in BOOLEAN,
          d \in {<<>>, DEPENDENCIES} :
         args = [ DefaultArgs("conda_only") EXCEPT
                    !.conda_prefix_name = cn, !.compile_prefix_name = pn,
                    !.skip_conda = sc, !.dependencies = d ]

SpecCondaOnly == InitCondaOnly /\ [][Next]_vars

mismatched == args.variant = "conda_only"
              /\ args.conda_prefix_name # args.compile_prefix_name

\* C11: constructing a conda-only descriptor whose conda_prefix_name differs from
\* its compile_prefix_name raises at construction (RuntimeError, or OSError when
\* the host is not supported either): no descriptor exists, so no manifest is
\* written, no handler is constructed and nothing is run
C11_MismatchFailsAtConstruction ==
    mismatched =>
        \/ epc = "new" /\ env = NoEnv /\ err = "none"
        \/ /\ epc = "failed"
           /\ env = NoEnv
           /\ err = IF host.system \in supported_systems THEN "RuntimeError" ELSE "OSError"
           /\ manifest = <<>>
           /\ log = <<>>
           /\ pkg = NoPkg
           /\ ppc = "none"

\* a mismatched conda-only construction on a supported host has been refused
C11_Witness ==
    /\ mismatched
    /\ host.system \in supported_systems
    /\ epc = "failed"
    /\ err = "RuntimeError"

----------------------------------------------------------------------------
(* The order of run_all *)

\* the handlers whose method run_all has called so far, in order
started == LET calls == SelectSeq(log, LAMBDA e : e.what \in methods)
           IN  [i \in 1..Len(calls) |-> <<calls[i].who>>]

\* the handlers the descriptor asks for: conda unless skipped, then the names of
\* the pmpm dependencies in the order they were declared
declared ==
    LET items == dependencies_versioned(env.dependencies).items
    IN  (IF env.skip_conda THEN <<>> ELSE << <<"conda">> >>)
        \o [i \in 1..Len(items) |-> items[i].name]

is_prefix(s, t) == Len(s) <= Len(t) /\ s = SubSeq(t, 1, Len(s))

\* the failures the run may end with by the rules of run_all: an external step
\* that exits non-zero, a malformed dependency string, a name without a handler
anticipated == {"CalledProcessError", "RuntimeError"}

\* C12: run_all writes the manifest first; then the conda handler runs iff
\* skip_conda is false; then one handler per pmpm dependency runs in
\* declaration order, each finishing before the next is constructed; so the
\* handlers started are always the first of those declared, and all of them
\* once a run is over that no failing step and no configuration error stopped.
C12_RunAllOrder ==
    env.variant # "none" =>
        /\ log # <<>> => log[1] = Event("env", "write_dict")
        /\ is_prefix(started, declared)
        /\ ppc = "constructed" => todo = <<>>
        /\ (epc \in {"done", "failed"} /\ err \notin anticipated) => started = declared

----------------------------------------------------------------------------
(* The program used either way: run_all from the CLI, or a handler from the
   library, with the descriptor's own update and fast_update *)

InitAny ==
    /\ InitCommon
    /\ scratch = EmptyDict
    /\ os_environ = DefaultEnviron
    /\ host \in {h \in Hosts : h.system \in {"Linux", "Darwin"}}
    /\ fs \in InitialDirs
    /\ \E u \in Tri, f \in BOOLEAN, sc \in BOOLEAN, st \in BOOLEAN,
          d \in {<<>>, DEPENDENCIES} :
         args = [ DefaultArgs("general") EXCEPT
                    !.update = u, !.fast_update = f, !.skip_conda = sc,
                    !.skip_test = st, !.dependencies = d ]

NextAny ==
    \/ Next
    \/ \E kind \in package_modules : NewPackage(kind, env.update, env.fast_update)

SpecAny == InitAny /\ [][NextAny]_vars

\* the processes that exited non-zero, the first clone attempt apart
fatal_exits == { i \in 1..Len(exits) : exits[i].code # 0 /\ exits[i].what # "clone_ssh" }

\* the run is over with the process's failure: nothing is left to run
aborted ==
    /\ err = "CalledProcessError"
    /\ ppc = "failed"
    /\ epc = "failed"
    /\ todo = <<>>

\* C13: a non-zero exit of any external step but the first clone attempt aborts
\* the run: the failing process is the last one run and the last thing logged,
\* CalledProcessError leaves the handler and run_all, and from then on nothing
\* happens: no later step, no later handler.
C13_FailureAborts ==
    /\ [](fatal_exits # {} =>
            /\ fatal_exits = {Len(exits)}
            /\ log[Len(log)] = Event(exits[Len(exits)].who, exits[Len(exits)].what)
            /\ aborted)
    /\ [][fatal_exits = {}]_vars

\* the conda handler's process failed inside run_all with dependencies waiting
C13_Witness ==
    /\ fatal_exits # {}
    /\ exits[Len(exits)].who = "conda"
    /\ manifest # <<>>
    /\ env.dependencies # <<>>
    /\ aborted

\* a source-built handler failed in the middle of its pipeline
C13_WitnessSourceBuilt ==
    /\ fatal_exits # {}
    /\ exits[Len(exits)] = Exit("libmadam", "_configure", 1)
    /\ aborted

----------------------------------------------------------------------------
(* The download step: the second URL *)

\* the places in exits where the process what was run
runs_of(what) == { i \in 1..Len(exits) : exits[i].what = what }

\* C14: in the download of libmadam and of toast the HTTPS clone runs exactly
\* when the SSH clone exited non-zero, directly after it and once: after an SSH
\* clone that succeeded no HTTPS clone runs or is left to run, and an HTTPS
\* clone that fails ends the run.
C14_HttpsIffSshFailed ==
    /\ Cardinality(runs_of("clone_ssh")) <= 1
    /\ Cardinality(runs_of("clone_https")) <= 1
    /\ \A i \in runs_of("clone_https") :
          /\ i > 1
          /\ exits[i - 1] = Exit(exits[i].who, "clone_ssh", 1)
          /\ exits[i].code # 0 => (i = Len(exits) /\ aborted)
    /\ \A i \in runs_of("clone_ssh") :
          /\ exits[i].who \in {"libmadam", "toast"}
          /\ IF exits[i].code = 0
             THEN runs_of("clone_https") = {} /\ "clone_https" \notin Range(todo)
             ELSE IF i = Len(exits)
             THEN ppc = "running" /\ todo # <<>> /\ Head(todo) = "clone_https"
             ELSE exits[i + 1].what = "clone_https"

\* the SSH clone failed, the HTTPS clone succeeded and the pipeline went on
C14_Witness ==
    /\ Len(exits) >= 3
    /\ exits[1] = Exit("libmadam", "clone_ssh", 1)
    /\ exits[2] = Exit("libmadam", "clone_https", 0)
    /\ exits[3].what = "_autogen"

\* both clones failed
C14_WitnessFatal ==
    /\ exits = <<Exit("toast", "clone_ssh", 1), Exit("toast", "clone_https", 1)>>
    /\ aborted

----------------------------------------------------------------------------
(* The steps of each path *)

\* the step a process belongs to: the clones and the checkout are the download
step_of(what) == IF what \in {"clone_ssh", "clone_https", "checkout"} THEN "download" ELSE what

RECURSIVE steps_run(_)
\* the steps whose processes have run, in order, each named once
steps_run(x) ==
    IF x = <<>> THEN <<>>
    ELSE LET before == steps_run(SubSeq(x, 1, Len(x) - 1))
             s == step_of(x[Len(x)].what)
         IN  IF before # <<>> /\ before[Len(before)] = s THEN before ELSE Append(before, s)

\* configure, build, install, bind of each source-built handler
configure_steps(kind) == IF kind = "libmadam" THEN <<"_autogen", "_configure">> ELSE <<"_cmake">>
build_steps(kind) ==
    IF kind = "libmadam" THEN <<"_make", "_make_install", "_python_install">>
    ELSE <<"_make", "_make_install">>

\* the steps of each path: install runs them all, update all but the download,
\* fast update neither the download nor the configure steps; the test is last
path_steps(kind, method, skip_test) ==
    (IF method = "install_env" THEN <<"download">> ELSE <<>>)
    \o (IF method = "update_env_fast" THEN <<>> ELSE configure_steps(kind))
    \o build_steps(kind)
    \o (IF skip_test THEN <<>> ELSE <<"_test">>)

\* C15: a source-built handler runs the steps of its path in order, install:
\* download, configure, build, install, bind, test; update: the same without
\* the download; fast update: without download and configure; so the steps run
\* are always the first of the path, and all of them once the handler is over
\* and no process has failed.
C15_PathSteps ==
    (dispatched /\ pkg.kind \in {"libmadam", "toast"}) =>
        \A m \in called :
            LET path == path_steps(pkg.kind, m, env.skip_test) IN
            /\ is_prefix(steps_run(exits), path)
            /\ (ppc \in {"done", "failed"} /\ \A i \in 1..Len(exits) : exits[i].code = 0)
                   => steps_run(exits) = path

----------------------------------------------------------------------------
(* A dependency without a handler *)

\* whether pmpm.packages has a module of that name
has_handler(n) == Len(n) = 1 /\ n[1] \in package_modules

\* the places in the resolved dependencies whose name has no handler
undefined_packages ==
    LET r == dependencies_versioned(env.dependencies)
    IN  { i \in 1..Len(r.items) : ~has_handler(r.items[i].name) }

\* the handlers declared before the first dependency without one
declared_before_undefined ==
    LET k == CHOOSE i \in undefined_packages : \A j \in undefined_packages : i <= j
    IN  SubSeq(declared, 1, Len(declared) - (Len(dependencies_versioned(env.dependencies).items) - k + 1))

\* C16: with a dependency whose name has no handler, no handler of that or of
\* a later dependency is ever started, and a run that no failing process ended
\* ends with the 'package not defined' RuntimeError raised at dispatch, after
\* the handlers declared earlier have run.
C16_UndefinedPackage ==
    (env.variant # "none" /\ undefined_packages # {}) =>
        /\ is_prefix(started, declared_before_undefined)
        /\ (epc \in {"done", "failed"} /\ err # "CalledProcessError")
               => /\ err = "RuntimeError"
                  /\ epc = "failed"
                  /\ started = declared_before_undefined

----------------------------------------------------------------------------
(* The same invocation repeated after a run that aborted in a handler *)

MaxReruns == 1

\* the command is run again: a new process, the same arguments, the directories
\* the aborted run left behind
Rerun ==
    /\ ppc = "failed"
    /\ previous.runs < MaxReruns
    /\ previous' = [ kind        |-> pkg.kind,
                     update      |-> given.update,
                     fast_update |-> given.fast_update,
                     was_dir     |-> given.is_dir,
                     is_dir      |-> is_installed_path(env, pkg.kind) \in fs,
                     runs        |-> previous.runs + 1 ]
    /\ env' = NoEnv
    /\ epc' = "new"
    /\ pkg' = NoPkg
    /\ ppc' = "none"
    /\ todo' = <<>>
    /\ queue' = <<>>
    /\ log' = <<>>
    /\ exits' = <<>>
    /\ err' = "none"
    /\ given' = Given("None", FALSE, FALSE)
    /\ cache' = EmptyDict
    /\ heap' = <<>>
    /\ refs' = EmptyDict
    /\ penv' = 0
    /\ cflags' = NoFlags
    /\ UNCHANGED <<args, host, fs, manifest, os_environ, scratch, loaded>>

InitRetry ==
    /\ InitCommon
    /\ scratch = EmptyDict
    /\ os_environ = DefaultEnviron
    /\ host \in {h \in Hosts : h.system = "Linux"}
    /\ fs \in InitialDirs
    /\ \E u \in {"None", "False"}, f \in BOOLEAN, sc \in BOOLEAN,
          d \in {<<>>, DEPENDENCIES} :
         args = [ DefaultArgs("general") EXCEPT
                    !.update = u, !.fast_update = f, !.skip_conda = sc,
                    !.skip_test = TRUE, !.dependencies = d ]

NextRetry ==
    \/ NextAny
    \/ Rerun

SpecRetry == InitRetry /\ [][NextRetry]_vars

\* the handler that aborted is run again with the update flag unset both times
same_invocation ==
    /\ previous.kind # "none"
    /\ dispatched
    /\ pkg.kind = previous.kind
    /\ previous.update = "None"
    /\ given.update = "None"
    /\ given.fast_update = previous.fast_update

\* the path the repeated invocation takes follows the directory the abort left
classified_by_directory ==
    IF previous.is_dir
    THEN pkg.update = "True" /\ called \in {{"update_env"}, {"update_env_fast"}}
    ELSE pkg.update = "False" /\ called = {"install_env"}

\* C17 as stated: whenever the invocation is repeated with the update flag
\* unset, the handler takes the update path if its directory existed when the
\* run aborted and the install path if it did not.
C17_RetryClassifies == same_invocation => classified_by_directory

\* C17: the same, for the conda handler and for a source-built handler whose
\* fast_update is false: the update path if the directory is_installed looks
\* for existed when the run aborted, the install path again if it did not.
C17_RetryClassifiesAuto ==
    (same_invocation /\ (pkg.kind = "conda" \/ ~given.fast_update))
        => classified_by_directory

\* the first run cloned the source and then aborted; the second run updates
C17_Witness ==
    /\ same_invocation
    /\ pkg.kind = "libmadam" /\ ~given.fast_update
    /\ ~previous.was_dir /\ previous.is_dir
    /\ called = {"update_env"}

\* the first run aborted before any clone succeeded; the second run installs
C17_WitnessInstallAgain ==
    /\ same_invocation
    /\ pkg.kind = "toast" /\ ~given.fast_update
    /\ ~previous.is_dir
    /\ called = {"install_env"}
    /\ exits # <<>>

----------------------------------------------------------------------------
(* The base environment of the conda-only variant *)

\* the conda-only descriptor's base environment has been computed
base_read == env.variant = "conda_only" /\ Has(cache, "environ")

\* the keys are whitelisted names or PATH, PATH is the sanitized seed whatever
\* the ambient PATH is, and the all-paths view differs from the base only by
\* the conda-prefix bin directory in front of the seed
whitelist_frame ==
    LET base == cache["environ"]
        sep  == pathsep(host.system)
    IN  /\ DOMAIN base \subseteq environment_variable \cup {"PATH"}
        /\ Has(base, "PATH")
        /\ base["PATH"] = join(sanitized_path, sep)
        /\ Has(cache, "environ_with_all_paths") =>
              LET all == cache["environ_with_all_paths"] IN
              /\ DOMAIN all = DOMAIN base
              /\ \A k \in DOMAIN base \ {"PATH"} : all[k] = base[k]
              /\ all["PATH"] = bin(conda_prefix(env)) \o <<sep>> \o base["PATH"]

\* C18 as stated: besides the frame, each whitelisted variable is in the base
\* environment exactly when the host environment has it.
C18_Whitelist ==
    base_read =>
        /\ whitelist_frame
        /\ \A k \in environment_variable : Has(cache["environ"], k) <=> Has(os_environ, k)

\* C18: besides the frame, each whitelisted variable but CONDA_PREFIX is in the
\* base environment exactly when the host environment has it, with the host's
\* value; CONDA_PREFIX is always there, set to the directory two levels above
\* CONDA_EXE, whether or not the host environment has a CONDA_PREFIX.
C18_WhitelistDerivedPrefix ==
    base_read =>
        /\ whitelist_frame
        /\ \A k \in environment_variable \ {"CONDA_PREFIX"} :
              /\ Has(cache["environ"], k) <=> Has(os_environ, k)
              /\ Has(os_environ, k) => cache["environ"][k] = os_environ[k]
        /\ Has(os_environ, "CONDA_EXE")
        /\ Has(cache["environ"], "CONDA_PREFIX")
        /\ cache["environ"]["CONDA_PREFIX"]
              = str_path(parent(parent(Path(os_environ["CONDA_EXE"]))))

\* both views computed on a host with an ambient PATH, a variable outside the
\* whitelist and no CONDA_PREFIX
C18_Witness ==
    /\ base_read
    /\ Has(cache, "environ_with_all_paths")
    /\ Has(os_environ, "PATH") /\ os_environ["PATH"] # join(sanitized_path, pathsep(host.system))
    /\ Has(os_environ, "LD_LIBRARY_PATH")
    /\ Has(os_environ, "HOME")
    /\ ~Has(os_environ, "CONDA_PREFIX")

----------------------------------------------------------------------------
(* A run in which every process succeeds *)

\* the processes that create the directory is_installed looks for
installing(kind) == IF kind = "conda" THEN {"env_create"} ELSE {"clone_ssh", "clone_https"}

\* the prefix was empty when the run started: whatever handler directory exists
\* now, a process of this run has made
fresh_prefix ==
    \A kind \in package_modules :
        is_installed_path(DefaultArgs("general"), kind) \in fs
            => \E i \in 1..Len(exits) :
                  exits[i].who = kind /\ exits[i].what \in installing(kind)

\* C19: on a supported platform, from a fresh prefix, with skip_conda false and
\* the default dependencies, as long as every process run has exited with zero
\* run_all raises nothing, and when it returns the conda handler and the handler
\* of every dependency have run to the end.
C19_CleanExit ==
    ( /\ host.system \in supported_systems
      /\ fresh_prefix
      /\ ~args.skip_conda
      /\ args.dependencies = DEPENDENCIES
      /\ \A i \in 1..Len(exits) : exits[i].code = 0 )
        => /\ err = "none"
           /\ epc # "failed"
           /\ epc = "done" => (started = declared /\ todo = <<>>)

----------------------------------------------------------------------------
(* The compiler flags of the configure step *)

\* the architecture and tuning strings a descriptor may be given
SomeArchs == { <<"x86-64-v3">>, <<"native">> }
SomeTunes == { <<"generic">>, <<"native">> }

\* a source-built handler constructed with the arguments run_all passes on from
\* the descriptor: Package(env, update=env.update, fast_update=env.fast_update,
\* arch=env.arch, tune=env.tune)
NewPackageTuned(kind) ==
    /\ epc = "ready"
    /\ LET d == IF post_init_reads_is_installed(kind, env.update, env.fast_update)
                THEN is_installed_mkdir(env, kind, fs) ELSE fs
       IN  /\ pkg' = Package(kind, env, env.update, env.fast_update, env.arch, env.tune, d)
           /\ fs' = d
    /\ given' = Given(env.update, env.fast_update, is_installed(env, kind, fs))
    /\ ppc' = "constructed"
    /\ epc' = "direct"
    /\ UNCHANGED <<exits, previous, cflags, env, args, host, manifest, todo, queue, log, err,
                   views, loaded>>

InitTuned ==
    /\ InitCommon
    /\ scratch = EmptyDict
    /\ os_environ = DefaultEnviron
    /\ host \in {h \in Hosts : h.system \in {"Linux", "Darwin"}}
    /\ fs \in InitialDirs
    /\ \E a \in SomeArchs, t \in SomeTunes, u \in Tri :
         args = [ DefaultArgs("general") EXCEPT
                    !.arch = a, !.tune = t, !.update = u, !.skip_test = TRUE ]

NextTuned ==
    \/ Construct
    \/ \E kind \in {"libmadam", "toast"} : NewPackageTuned(kind)
    \/ PackageRunAll
    \/ Step
    \/ PackageReturn

SpecTuned == InitTuned /\ [][NextTuned]_vars

\* C20: whenever a source-built handler has run its configure step, the -march
\* and -mtune of the compiler flags it passed are the descriptor's arch and
\* tune, whatever these are.
C20_FlagsFollowDescriptor ==
    cflags # NoFlags => (cflags.march = env.arch /\ cflags.mtune = env.tune)

----------------------------------------------------------------------------
(* The test step and the skip_test flag *)

\* the test processes that have run
tests_run == runs_of("_test")

\* the handler is over and no process but a first clone has failed
handler_over ==
    /\ ppc \in {"done", "failed"}
    /\ \A i \in 1..Len(exits) : exits[i].code = 0 \/ exits[i].what = "clone_ssh"

\* C21: with skip_test true no source-built handler runs its test on the
\* install, update or fast-update path, and every other step of the path still
\* runs; with skip_test false the test runs last, only after all the earlier
\* steps of the path have succeeded.
C21_SkipTest ==
    (dispatched /\ pkg.kind \in {"libmadam", "toast"}) =>
        \A m \in called :
            LET others == path_steps(pkg.kind, m, TRUE) IN
            /\ env.skip_test =>
                   /\ tests_run = {}
                   /\ handler_over => steps_run(exits) = others
            /\ ~env.skip_test =>
                   /\ \A i \in tests_run :
                          /\ i = Len(exits)
                          /\ steps_run(SubSeq(exits, 1, i - 1)) = others
                          /\ \A j \in 1..(i - 1) :
                                 exits[j].code = 0 \/ exits[j].what = "clone_ssh"
                   /\ handler_over => steps_run(exits) = Append(others, "_test")

----------------------------------------------------------------------------
(* The environment views as objects: what computing a view or running a step
   leaves of the mappings computed before *)

\* os.environ with and without CIBUILDWHEEL, without a PATH, without CONDA_EXE
StepEnvirons ==
    { DefaultEnviron,
      Put(DefaultEnviron, "CIBUILDWHEEL", <<"1">>),
      [k \in {"CONDA_EXE", "HOME"} |-> DefaultEnviron[k]],
      [k \in {"HOME", "PATH"} |-> DefaultEnviron[k]] }

\* a descriptor of either variant, its views read in any order, then a handler
\* run directly on any of its paths
InitViews ==
    /\ InitCommon
    /\ scratch = EmptyDict
    /\ fs = {}
    /\ host \in { h \in Hosts : h.system \in {"Linux", "Darwin"} }
    /\ os_environ \in StepEnvirons
    /\ \E v \in {"general", "conda_only"}, st \in BOOLEAN :
         args = [DefaultArgs(v) EXCEPT !.skip_test = st]

NextViews ==
    \/ Construct
    \/ \E v \in view_names : ReadView(v)
    \/ \E kind \in package_modules, u \in {"True", "False"}, f \in BOOLEAN :
         NewPackage(kind, u, f)
    \/ PackageRunAll
    \/ Step
    \/ PackageReturn

SpecViews == InitViews /\ [][NextViews]_vars

\* the dicts the cached views hold
view_objects == { refs[v] : v \in DOMAIN refs }

\* C22: computing a view (in any order) or running a handler step that adds its
\* own variables (libmadam's configure, toast's test) never modifies the cached
\* base mapping nor a view computed earlier: every cached view keeps its dict
\* and the dict keeps its items, so each still has the value it was first
\* computed to.
C22_ViewsFrame ==
    /\ [](\A v \in DOMAIN refs : v \in DOMAIN cache /\ heap[refs[v]] = cache[v])
    /\ [][\A v \in DOMAIN refs :
              /\ v \in DOMAIN refs'
              /\ refs'[v] = refs[v]
              /\ heap'[refs[v]] = heap[refs[v]]]_vars

\* libmadam's configure has run with its own variables, after every view of the
\* general variant had been computed
C22_Witness ==
    /\ env.variant = "general"
    /\ DOMAIN refs = view_names
    /\ pkg.kind = "libmadam"
    /\ exits # <<>> /\ exits[Len(exits)].what = "_configure"
    /\ penv \notin view_objects \cup {0}
    /\ Has(heap[penv], "MPIFC") /\ Has(heap[penv], "CFLAGS")
    /\ ~Has(heap[refs["environ_with_compile_path"]], "MPIFC")

\* toast's test has run with CIBUILDWHEEL added, on the conda-only variant,
\* whose base mapping leaves the variable out
C22_WitnessTest ==
    /\ env.variant = "conda_only"
    /\ pkg.kind = "toast"
    /\ exits # <<>> /\ exits[Len(exits)].what = "_test"
    /\ penv \notin view_objects \cup {0}
    /\ Has(heap[penv], "CIBUILDWHEEL")
    /\ ~Has(heap[refs["environ_with_all_paths"]], "CIBUILDWHEEL")

====
